---- MODULE Spec2Model ----
(***************************************************************************)
(* Model of the cubic_spline crate: the sliding four-point window          *)
(* generator (PointsIter / Points3DIter), the Hermite evaluator            *)
(* (calc_spline / calc_spline_3d) and the Points3D constructors            *)
(* (try_from / try_from_flatten).                                          *)
(*                                                                         *)
(* f64 values are modelled as exact rationals <<numerator, denominator>>   *)
(* in lowest terms with a positive denominator; <<0, 0>> stands for the    *)
(* result of a division by zero.  Option<T> is <<>> (None) or <<v>>        *)
(* (Some(v)).  A reference &Point is a record naming what it points at.    *)
(***************************************************************************)
EXTENDS Integers, Sequences, FiniteSets, TLC

VARIABLES
    dim,        \* 2: calc_spline / PointsIter, 3: calc_spline_3d / Points3DIter
    points,     \* the input point sequence (Points / Points3D)
    opts,       \* the configuration (SplineOpts / SplineOpts3D)
    pc,         \* position in calc_spline
    iter,       \* the PointsIter value, <<>> before PointsIter::new
    item,       \* the window bound by the `for` loop, <<>> outside the loop body
    t,          \* the inner loop counter
    result,     \* the output Vec
    ret,        \* the value returned, <<>> while running
    yielded,    \* history: the windows next() has returned, in order
    noneCalls,  \* history: how many calls of next() returned None
    conv,       \* which constructor runs: "try_from" or "try_from_flatten"
    input,      \* the constructor's argument
    pos,        \* how many elements of input the constructor has consumed
    v,          \* try_from_flatten: the Vec being built
    fx,         \* try_from_flatten: x
    fy,         \* try_from_flatten: y
    cret        \* the value the constructor returned, <<>> while running

calcVars == <<dim, points, opts, pc, iter, item, t, result, ret, yielded, noneCalls>>
convVars == <<conv, input, pos, v, fx, fy, cret>>
vars == <<dim, points, opts, pc, iter, item, t, result, ret, yielded, noneCalls,
          conv, input, pos, v, fx, fy, cret>>

\* Bounds of the model.
MaxPoints == 4
MaxSegments == 2
MaxNoneCalls == 2
MaxFlat == 6

-----------------------------------------------------------------------------
\* Option and Result values.

None == <<>>
Some(val) == <<val>>
IsSome(o) == o /= <<>>
UnwrapOr(o, default) == IF IsSome(o) THEN o[1] ELSE default

Ok(val) == <<"Ok", val>>
Err(e) == <<"Err", e>>
IsOk(r) == Len(r) = 2 /\ r[1] = "Ok"

SeqsUpTo(S, n) == UNION {[1..k -> S] : k \in 0..n}

-----------------------------------------------------------------------------
\* f64 arithmetic, exact.

Abs(n) == IF n < 0 THEN -n ELSE n

RECURSIVE Gcd(_, _)
Gcd(a, b) == IF b = 0 THEN a ELSE Gcd(b, a % b)

NaN == <<0, 0>>

Norm(n, d) ==
    IF d = 0 THEN NaN
    ELSE LET g == Gcd(Abs(n), Abs(d))
             s == IF d < 0 THEN -1 ELSE 1
         IN  <<(s * n) \div g, (s * d) \div g>>

F(i) == <<i, 1>>
Add(a, b) == Norm(a[1] * b[2] + b[1] * a[2], a[2] * b[2])
Neg(a) == <<-a[1], a[2]>>
Sub(a, b) == Add(a, Neg(b))
Mul(a, b) == Norm(a[1] * b[1], a[2] * b[2])
Div(a, b) == Norm(a[1] * b[2], a[2] * b[1])
Powi(a, n) == IF n = 2 THEN Mul(a, a) ELSE Mul(a, Mul(a, a))

-----------------------------------------------------------------------------
\* Points.

PointNew(x, y) == [x |-> x, y |-> y, tension |-> None]
PointWithTension(x, y, tension) == [x |-> x, y |-> y, tension |-> Some(tension)]
Point3DNew(x, y, z) == [x |-> x, y |-> y, z |-> z, tension |-> None]
Point3DWithTension(x, y, z, tension) ==
    [x |-> x, y |-> y, z |-> z, tension |-> Some(tension)]

\* The points the inputs are drawn from: one without a tension override,
\* one overriding the tension with 0, one overriding it with 2.
Pool(d) ==
    IF d = 2
    THEN { PointNew(F(0), F(0)),
           PointWithTension(F(2), F(1), F(0)),
           PointWithTension(F(1), F(3), F(2)) }
    ELSE { Point3DNew(F(0), F(0), F(0)),
           Point3DWithTension(F(2), F(1), F(3), F(0)),
           Point3DWithTension(F(1), F(3), F(-1), F(2)) }

HiddenStart(d) ==
    IF d = 2 THEN PointWithTension(F(-2), F(5), F(3))
    ELSE Point3DWithTension(F(-2), F(5), F(4), F(3))

HiddenEnd(d) ==
    IF d = 2 THEN PointWithTension(F(6), F(-3), F(3))
    ELSE Point3DWithTension(F(6), F(-3), F(7), F(3))

OptsSet(d) ==
    [ tension : {F(0), F(1)},
      num_of_segments : 0..MaxSegments,
      hidden_point_at_start : {None, Some(HiddenStart(d))},
      hidden_point_at_end : {None, Some(HiddenEnd(d))},
      closed : BOOLEAN ]

-----------------------------------------------------------------------------
\* References.  &pts[j] is PtRef(j) (j counts from 0 as in the source); an
\* index past the end of the Vec panics, which OutOfBounds stands for.

PtRef(j) == [src |-> "pts", i |-> j]
HiddenStartRef == [src |-> "hidden_point_at_start", i |-> 0]
HiddenEndRef == [src |-> "hidden_point_at_end", i |-> 0]
OutOfBounds == [src |-> "panic", i |-> 0]

At(pts, j) == IF j >= 0 /\ j < Len(pts) THEN PtRef(j) ELSE OutOfBounds

Deref(r, pts, o) ==
    CASE r.src = "pts" -> pts[r.i + 1]
      [] r.src = "hidden_point_at_start" -> o.hidden_point_at_start[1]
      [] r.src = "hidden_point_at_end" -> o.hidden_point_at_end[1]

-----------------------------------------------------------------------------
\* The window generator: PointsIter / Points3DIter (the two are the same code
\* over Point and Point3D).  current is 1-based here: current[1] is the
\* source's current[0] (prev), current[4] is the source's current[3] (next2).

\* Mutant: a hidden start point is used on a closed curve too.
NewPrev_HiddenWhenClosed(pts, o) ==
    IF IsSome(o.hidden_point_at_start) THEN HiddenStartRef
    ELSE IF o.closed THEN At(pts, Len(pts) - 1)
    ELSE At(pts, 0)

NewPrev(pts, o) ==
    IF o.closed
    THEN At(pts, Len(pts) - 1)
    ELSE IF IsSome(o.hidden_point_at_start) THEN HiddenStartRef ELSE At(pts, 0)

\* Mutant: pts[2] in place of pts.get(2).
NewNext2_Unchecked(pts, o) == At(pts, 2)

NewNext2(pts, o) ==
    IF Len(pts) > 2 THEN At(pts, 2)
    ELSE IF o.closed THEN At(pts, 0)
    ELSE At(pts, 1)

\* Mutant: the open curve loses its last interval.
NewMaxIndex_OpenShort(pts, o) == IF o.closed THEN Len(pts) ELSE Len(pts) - 2

NewMaxIndex(pts, o) == IF o.closed THEN Len(pts) ELSE Len(pts) - 1

New(pts, o) ==
    [ max_index |-> NewMaxIndex(pts, o),
      index |-> 0,
      current |-> <<NewPrev(pts, o), At(pts, 0), At(pts, 1), NewNext2(pts, o)>>,
      hidden_point_at_end |->
          IF IsSome(o.hidden_point_at_end) THEN Some(HiddenEndRef) ELSE None,
      closed |-> o.closed ]

GetPointsToCalc(it) == it.current

\* Mutant: the closed curve wraps one window late, to pts[0] only.
UpdateLast_LateWrap(it, pts) ==
    IF it.closed
    THEN IF it.index = it.max_index - 1 THEN At(pts, 0)
         ELSE At(pts, it.index + 2)
    ELSE IF it.index = it.max_index - 1
         THEN UnwrapOr(it.hidden_point_at_end, it.current[3])
         ELSE At(pts, it.index + 2)

\* Mutant: the last window of an open curve ignores hidden_point_at_end.
UpdateLast_IgnoreHiddenEnd(it, pts) ==
    IF it.closed
    THEN IF it.index = it.max_index - 2 THEN At(pts, 0)
         ELSE IF it.index = it.max_index - 1 THEN At(pts, 1)
         ELSE At(pts, it.index + 2)
    ELSE IF it.index = it.max_index - 1
         THEN it.current[3]
         ELSE At(pts, it.index + 2)

\* The new current[3] of update_current, read after the three shifts.
UpdateLast(it, pts) ==
    IF it.closed
    THEN IF it.index = it.max_index - 2 THEN At(pts, 0)
         ELSE IF it.index = it.max_index - 1 THEN At(pts, 1)
         ELSE At(pts, it.index + 2)
    ELSE IF it.index = it.max_index - 1
         THEN UnwrapOr(it.hidden_point_at_end, it.current[3])
         ELSE At(pts, it.index + 2)

UpdateCurrent(it, pts) ==
    LET c == it.current
        shifted == [it EXCEPT !.current = <<c[2], c[3], c[4], c[4]>>]
    IN  [shifted EXCEPT !.current[4] = UpdateLast(shifted, pts)]

\* Mutant: update_current is called after the last window too.
IterNext_AlwaysUpdate(it, pts) ==
    IF it.index = it.max_index
    THEN [item |-> None, iter |-> it]
    ELSE LET points_to_calc == GetPointsToCalc(it)
             stepped == [it EXCEPT !.index = @ + 1]
         IN  [ item |-> Some(points_to_calc),
               iter |-> UpdateCurrent(stepped, pts) ]

\* Iterator::next: the item returned and the iterator afterwards.
IterNext(it, pts) ==
    IF it.index = it.max_index
    THEN [item |-> None, iter |-> it]
    ELSE LET points_to_calc == GetPointsToCalc(it)
             stepped == [it EXCEPT !.index = @ + 1]
         IN  [ item |-> Some(points_to_calc),
               iter |-> IF stepped.index /= stepped.max_index
                        THEN UpdateCurrent(stepped, pts)
                        ELSE stepped ]

\* usize subtractions.  new() evaluates pts.len() - 1 (for prev when closed,
\* for max_index when open); update_current evaluates max_index - 2 and, if
\* that comparison fails, max_index - 1 when closed, and max_index - 1 when
\* open.  A subtraction below zero panics in a build with overflow checks and
\* wraps in one without; a wrapped value is never equal to index and is past
\* the end of pts, which is what the integer value gives here too.
NewUnderflows(pts, o) == Len(pts) < 1

UpdateUnderflows(it) ==
    IF it.closed
    THEN it.max_index < 2 \/ (it.index /= it.max_index - 2 /\ it.max_index < 1)
    ELSE it.max_index < 1

\* Whether a call of next() on it evaluates a subtraction below zero.
NextUnderflows(it) ==
    /\ it.index /= it.max_index
    /\ it.index + 1 /= it.max_index
    /\ UpdateUnderflows([it EXCEPT !.index = @ + 1])

\* Whether the build's overflow checks stop a step: only a step that
\* underflows can be stopped, and whether it is depends on the build.
OverflowChecks(underflows) == IF underflows THEN BOOLEAN ELSE {FALSE}

\* An index past the end of pts panics.
Panicked(it) == \E k \in 1..4 : it.current[k] = OutOfBounds

-----------------------------------------------------------------------------
\* The Hermite evaluator: calc_spline / calc_spline_3d.

\* Mutant: only the empty sequence is rejected.
TooFew_OnlyEmpty(points_len) == points_len < 1

TooFew(points_len) == points_len < 2

\* Mutant: the per-point override is forgotten.
Tension_GlobalOnly(curr, o) == o.tension

Tension(curr, o) == UnwrapOr(curr.tension, o.tension)

BasisC1(st) == Add(Sub(Mul(F(2), Powi(st, 3)), Mul(F(3), Powi(st, 2))), F(1))
\* Mutant: 3 * st in place of 3 * st^2.
BasisC2_NoSquare(st) == Add(Neg(Mul(F(2), Powi(st, 3))), Mul(F(3), st))

BasisC2(st) == Add(Neg(Mul(F(2), Powi(st, 3))), Mul(F(3), Powi(st, 2)))
BasisC3(st) == Add(Sub(Powi(st, 3), Mul(F(2), Powi(st, 2))), st)
BasisC4(st) == Sub(Powi(st, 3), Powi(st, 2))

\* Mutant: the parameter runs over (0, 1] instead of [0, 1).
SampleAxis_ShiftedParam(prev, curr, next, next2, tension, tt, num_of_segments) ==
    LET t1 == Mul(Sub(next, prev), tension)
        t2 == Mul(Sub(next2, curr), tension)
        st == Div(F(tt + 1), F(num_of_segments))
    IN  Add(Add(Add(Mul(BasisC1(st), curr), Mul(BasisC2(st), next)),
                Mul(BasisC3(st), t1)),
            Mul(BasisC4(st), t2))

\* One axis of one sample: prev, curr, next, next2 are that axis of the window.
SampleAxis(prev, curr, next, next2, tension, tt, num_of_segments) ==
    LET t1 == Mul(Sub(next, prev), tension)
        t2 == Mul(Sub(next2, curr), tension)
        st == Div(F(tt), F(num_of_segments))
    IN  Add(Add(Add(Mul(BasisC1(st), curr), Mul(BasisC2(st), next)),
                Mul(BasisC3(st), t1)),
            Mul(BasisC4(st), t2))

\* The point pushed by iteration tt of the inner loop for window w (four
\* references).
SamplePoint(d, w, pts, o, tt) ==
    LET prev == Deref(w[1], pts, o)
        curr == Deref(w[2], pts, o)
        next == Deref(w[3], pts, o)
        next2 == Deref(w[4], pts, o)
        tension == Tension(curr, o)
        n == o.num_of_segments
    IN  IF d = 2
        THEN PointNew(SampleAxis(prev.x, curr.x, next.x, next2.x, tension, tt, n),
                      SampleAxis(prev.y, curr.y, next.y, next2.y, tension, tt, n))
        ELSE Point3DNew(SampleAxis(prev.x, curr.x, next.x, next2.x, tension, tt, n),
                        SampleAxis(prev.y, curr.y, next.y, next2.y, tension, tt, n),
                        SampleAxis(prev.z, curr.z, next.z, next2.z, tension, tt, n))

\* A copy of p's coordinates without its tension: Point::new(p.x, p.y).
CopyCoords(d, p) == IF d = 2 THEN PointNew(p.x, p.y) ELSE Point3DNew(p.x, p.y, p.z)

\* Mutant: the last input point is pushed whether or not the curve is closed.
ClosingPush_AlwaysLast(d, res, pts, o) ==
    IF Len(pts) > 0 THEN Append(res, CopyCoords(d, pts[Len(pts)])) ELSE res

\* Mutant: the first input point is pushed whether or not the curve is closed.
ClosingPush_AlwaysFirst(d, res, pts, o) ==
    IF Len(pts) > 0 THEN Append(res, CopyCoords(d, pts[1])) ELSE res

\* The pushes after the loop.
ClosingPush(d, res, pts, o) ==
    IF o.closed
    THEN IF Len(pts) > 0 THEN Append(res, CopyCoords(d, pts[1])) ELSE res
    ELSE IF Len(pts) > 0 THEN Append(res, CopyCoords(d, pts[Len(pts)])) ELSE res

ConvIdle ==
    /\ conv = "none"
    /\ input = <<>>
    /\ pos = 0
    /\ v = <<>>
    /\ fx = None
    /\ fy = None
    /\ cret = <<>>

Init ==
    /\ dim \in {2, 3}
    /\ points \in SeqsUpTo(Pool(dim), MaxPoints)
    /\ opts \in OptsSet(dim)
    /\ pc = "start"
    /\ iter = <<>>
    /\ item = None
    /\ t = 0
    /\ result = <<>>
    /\ ret = <<>>
    /\ yielded = <<>>
    /\ noneCalls = 0
    /\ ConvIdle

\* The length check at the head of calc_spline.
CheckLen ==
    /\ pc = "start"
    /\ IF TooFew(Len(points))
       THEN /\ ret' = Err("TooFewPoints")
            /\ pc' = "done"
       ELSE /\ ret' = ret
            /\ pc' = "new"
    /\ UNCHANGED <<dim, points, opts, iter, item, t, result, yielded, noneCalls>>
    /\ UNCHANGED convVars

\* PointsIter::new(points, opts).
IterNew ==
    /\ pc = "new"
    /\ iter' = New(points, opts)
    /\ \E checked \in OverflowChecks(NewUnderflows(points, opts)) :
           pc' = IF Panicked(iter') \/ checked THEN "panic" ELSE "loop"
    /\ UNCHANGED <<dim, points, opts, item, t, result, ret, yielded, noneCalls>>
    /\ UNCHANGED convVars

\* The head of `for (prev, curr, next, next2) in iter`: one call of next().
LoopNext ==
    /\ pc = "loop"
    /\ \E checked \in OverflowChecks(NextUnderflows(iter)) :
       LET r == IterNext(iter, points)
       IN  /\ iter' = r.iter
           /\ IF r.item = None
              THEN /\ pc' = "close"
                   /\ item' = None
                   /\ noneCalls' = noneCalls + 1
                   /\ UNCHANGED <<t, yielded>>
              ELSE IF Panicked(r.iter) \/ checked
              THEN /\ pc' = "panic"
                   /\ UNCHANGED <<item, t, yielded, noneCalls>>
              ELSE /\ pc' = "inner"
                   /\ item' = r.item
                   /\ yielded' = Append(yielded, r.item[1])
                   /\ t' = 0
                   /\ UNCHANGED noneCalls
    /\ UNCHANGED <<dim, points, opts, result, ret>>
    /\ UNCHANGED convVars

\* Mutant: the inner loop tests its bound after the body (a do-while).
Sample_DoWhile ==
    /\ pc = "inner"
    /\ (t < opts.num_of_segments \/ t = 0)
    /\ result' = Append(result, SamplePoint(dim, item[1], points, opts, t))
    /\ t' = t + 1
    /\ UNCHANGED <<dim, points, opts, pc, iter, item, ret, yielded, noneCalls>>
    /\ UNCHANGED convVars

\* One iteration of `for t in 0..num_of_segments`.
Sample ==
    /\ pc = "inner"
    /\ t < opts.num_of_segments
    /\ result' = Append(result, SamplePoint(dim, item[1], points, opts, t))
    /\ t' = t + 1
    /\ UNCHANGED <<dim, points, opts, pc, iter, item, ret, yielded, noneCalls>>
    /\ UNCHANGED convVars

\* The inner range is exhausted: back to the head of the outer loop.
InnerDone ==
    /\ pc = "inner"
    /\ t >= opts.num_of_segments
    /\ pc' = "loop"
    /\ item' = None
    /\ UNCHANGED <<dim, points, opts, iter, t, result, ret, yielded, noneCalls>>
    /\ UNCHANGED convVars

\* The closing point and the return.
Closing ==
    /\ pc = "close"
    /\ result' = ClosingPush(dim, result, points, opts)
    /\ ret' = Ok(result')
    /\ pc' = "done"
    /\ UNCHANGED <<dim, points, opts, iter, item, t, yielded, noneCalls>>
    /\ UNCHANGED convVars

Next ==
    \/ CheckLen
    \/ IterNew
    \/ LoopNext
    \/ Sample
    \/ InnerDone
    \/ Closing

Spec == Init /\ [][Next]_vars

-----------------------------------------------------------------------------
\* The window generator on its own: any number of calls of next() on an
\* iterator built over at least two points (what calc_spline guarantees).

InitIter ==
    /\ dim \in {2, 3}
    /\ points \in {p \in SeqsUpTo(Pool(dim), MaxPoints) : Len(p) >= 2}
    /\ opts \in OptsSet(dim)
    /\ pc = "iter"
    /\ iter = New(points, opts)
    /\ item = None
    /\ t = 0
    /\ result = <<>>
    /\ ret = <<>>
    /\ yielded = <<>>
    /\ noneCalls = 0
    /\ ConvIdle

\* A call of next() that returns Some(window).
NextSome ==
    /\ pc = "iter"
    /\ \E checked \in OverflowChecks(NextUnderflows(iter)) :
       LET r == IterNext(iter, points)
       IN  /\ r.item /= None
           /\ iter' = r.iter
           /\ IF Panicked(r.iter) \/ checked
              THEN /\ pc' = "panic"
                   /\ UNCHANGED <<item, yielded>>
              ELSE /\ pc' = pc
                   /\ item' = r.item
                   /\ yielded' = Append(yielded, r.item[1])
    /\ UNCHANGED <<dim, points, opts, t, result, ret, noneCalls>>
    /\ UNCHANGED convVars

\* A call of next() that returns None.
NextNone ==
    /\ pc = "iter"
    /\ noneCalls < MaxNoneCalls
    /\ LET r == IterNext(iter, points)
       IN  /\ r.item = None
           /\ iter' = r.iter
           /\ item' = r.item
    /\ noneCalls' = noneCalls + 1
    /\ UNCHANGED <<dim, points, opts, pc, t, result, ret, yielded>>
    /\ UNCHANGED convVars

NextIter ==
    \/ NextSome
    \/ NextNone

SpecIter == InitIter /\ [][NextIter]_vars

-----------------------------------------------------------------------------
\* The Points3D constructors.

\* What try_from's items are converted from: (f64, f64, f64) tuples.
TupleSet == { <<F(0), F(0), F(0)>>, <<F(2), F(1), F(3)>>, <<F(1), F(3), F(-1)>> }

\* The values of a flat coordinate sequence.
FlatSet == { F(1), F(2) }

\* From<(f64, f64, f64)> for Point3D.
IntoPoint3D(p) == Point3DNew(p[1], p[2], p[3])

\* points.into_iter().map(Into::into).collect()
RECURSIVE CollectInto(_)
CollectInto(s) ==
    IF s = <<>> THEN <<>>
    ELSE <<IntoPoint3D(Head(s))>> \o CollectInto(Tail(s))

\* TryFrom for Points3D, after the collect.
TryFromCheck(vec) == IF Len(vec) < 3 THEN Err("TooFewPoints") ELSE Ok(vec)

\* The name of the error try_from_flatten returns for a dangling coordinate.
DanglingError == "MissingCoordinate"

\* try_from_flatten, after the loop.
FlattenCheck(vec, x, y) ==
    IF IsSome(x) \/ IsSome(y) THEN Err(DanglingError)
    ELSE IF Len(vec) < 2 THEN Err("TooFewPoints")
    ELSE Ok(vec)

CalcIdle ==
    /\ dim = 3
    /\ points = <<>>
    /\ opts = <<>>
    /\ pc = "idle"
    /\ iter = <<>>
    /\ item = None
    /\ t = 0
    /\ result = <<>>
    /\ ret = <<>>
    /\ yielded = <<>>
    /\ noneCalls = 0

InitConv ==
    /\ CalcIdle
    /\ conv \in {"try_from", "try_from_flatten"}
    /\ input \in IF conv = "try_from"
                 THEN SeqsUpTo(TupleSet, MaxPoints)
                 ELSE SeqsUpTo(FlatSet, MaxFlat)
    /\ pos = 0
    /\ v = <<>>
    /\ fx = None
    /\ fy = None
    /\ cret = <<>>

\* Points3D::try_from(input).
TryFrom ==
    /\ conv = "try_from"
    /\ cret = <<>>
    /\ v' = CollectInto(input)
    /\ pos' = Len(input)
    /\ cret' = TryFromCheck(v')
    /\ UNCHANGED <<conv, input, fx, fy>>
    /\ UNCHANGED calcVars

\* One iteration of the loop of try_from_flatten.
FlattenStep ==
    /\ conv = "try_from_flatten"
    /\ cret = <<>>
    /\ pos < Len(input)
    /\ LET point == input[pos + 1]
       IN  IF IsSome(fx) /\ IsSome(fy)
           THEN /\ v' = Append(v, Point3DNew(fx[1], fy[1], point))
                /\ fx' = None
                /\ fy' = None
           ELSE IF IsSome(fx)
           THEN /\ fy' = Some(point)
                /\ UNCHANGED <<v, fx>>
           ELSE /\ fx' = Some(point)
                /\ UNCHANGED <<v, fy>>
    /\ pos' = pos + 1
    /\ UNCHANGED <<conv, input, cret>>
    /\ UNCHANGED calcVars

\* The checks after the loop of try_from_flatten, and the return.
FlattenFinish ==
    /\ conv = "try_from_flatten"
    /\ cret = <<>>
    /\ pos = Len(input)
    /\ cret' = FlattenCheck(v, fx, fy)
    /\ UNCHANGED <<conv, input, pos, v, fx, fy>>
    /\ UNCHANGED calcVars

NextConv ==
    \/ TryFrom
    \/ FlattenStep
    \/ FlattenFinish

SpecConv == InitConv /\ [][NextConv]_vars

-----------------------------------------------------------------------------
\* calc_spline as a function of its arguments: the same steps, run to the end.

\* The windows an iterator yields from `it` on.
RECURSIVE WindowsFrom(_, _)
WindowsFrom(it, pts) ==
    LET r == IterNext(it, pts)
    IN  IF r.item = None THEN <<>>
        ELSE <<r.item[1]>> \o WindowsFrom(r.iter, pts)

\* The points the inner loop pushes for window w from iteration tt on.
RECURSIVE SamplesFrom(_, _, _, _, _)
SamplesFrom(d, w, pts, o, tt) ==
    IF tt >= o.num_of_segments THEN <<>>
    ELSE <<SamplePoint(d, w, pts, o, tt)>> \o SamplesFrom(d, w, pts, o, tt + 1)

\* The points the outer loop pushes for the windows ws.
RECURSIVE EvalWindows(_, _, _, _)
EvalWindows(d, ws, pts, o) ==
    IF ws = <<>> THEN <<>>
    ELSE SamplesFrom(d, Head(ws), pts, o, 0) \o EvalWindows(d, Tail(ws), pts, o)

CalcSpline(d, pts, o) ==
    IF TooFew(Len(pts)) THEN Err("TooFewPoints")
    ELSE Ok(ClosingPush(d, EvalWindows(d, WindowsFrom(New(pts, o), pts), pts, o),
                        pts, o))

-----------------------------------------------------------------------------
\* Properties.

NumPoints == Len(points)
Segments == opts.num_of_segments
Last(s) == s[Len(s)]

\* C1: an open curve of N >= 2 points with S >= 1 segments per interval never
\* panics, and returns Ok with exactly (N-1)*S + 1 points,
\* whatever the tension and the hidden anchors.
C1_OpenLength ==
    (~opts.closed /\ NumPoints >= 2 /\ Segments >= 1) =>
        /\ pc /= "panic"
        /\ (pc = "done") =>
               /\ IsOk(ret)
               /\ Len(ret[2]) = (NumPoints - 1) * Segments + 1

C1_Witness ==
    /\ pc = "done"
    /\ ~opts.closed
    /\ NumPoints = 4
    /\ Segments = 2
    /\ IsSome(opts.hidden_point_at_start)
    /\ IsSome(opts.hidden_point_at_end)
    /\ opts.tension = F(1)
    /\ IsOk(ret)
    /\ Len(ret[2]) = 7

\* C2: a closed curve of N >= 2 points with S >= 1 segments returns exactly
\* N*S + 1 points, the last of them with the coordinates of the first input
\* point.
C2_ClosedLength ==
    (opts.closed /\ NumPoints >= 2 /\ Segments >= 1) =>
        /\ pc /= "panic"
        /\ (pc = "done") =>
               /\ IsOk(ret)
               /\ Len(ret[2]) = NumPoints * Segments + 1
               /\ Last(ret[2]) = CopyCoords(dim, points[1])

C2_Witness ==
    /\ pc = "done"
    /\ opts.closed
    /\ NumPoints = 3
    /\ Segments = 2
    /\ points[1] /= points[3]
    /\ IsOk(ret)
    /\ Len(ret[2]) = 7
    /\ Last(ret[2]) = CopyCoords(dim, points[1])

\* C3: on an open curve of N >= 2 points the output ends with the last input
\* point, copied (not computed by the basis formula) and pushed once, after
\* the last window; every other output point is pushed inside a window.
C3_Step ==
    (~opts.closed /\ NumPoints >= 2 /\ result' /= result) =>
        \/ /\ pc = "inner"
           /\ item /= None
           /\ pc' = "inner"
           /\ Len(result') = Len(result) + 1
        \/ /\ pc = "close"
           /\ pc' = "done"
           /\ iter.index = iter.max_index
           /\ Len(yielded) = NumPoints - 1
           /\ result' = Append(result, CopyCoords(dim, points[NumPoints]))

C3_Done ==
    (~opts.closed /\ NumPoints >= 2 /\ pc = "done") =>
        /\ IsOk(ret)
        /\ Last(ret[2]) = CopyCoords(dim, points[NumPoints])
        /\ Len(ret[2]) = Len(yielded) * Segments + 1

C3_OpenLast == [][C3_Step /\ C3_Done']_vars

C3_Witness ==
    /\ pc = "done"
    /\ ~opts.closed
    /\ NumPoints = 3
    /\ Segments = 2
    /\ points[1] /= points[3]
    /\ IsSome(points[3].tension)
    /\ IsOk(ret)
    /\ Len(ret[2]) = 5
    /\ Last(ret[2]) = CopyCoords(dim, points[3])

\* C4: with fewer than 2 points calc_spline returns Error::TooFewPoints for
\* every configuration, before the window generator is constructed: no
\* window is generated and no output point is produced.
C4_TooFewPoints ==
    (NumPoints < 2) =>
        /\ pc \in {"start", "done"}
        /\ iter = <<>>
        /\ yielded = <<>>
        /\ noneCalls = 0
        /\ result = <<>>
        /\ (pc = "done") => (ret = Err("TooFewPoints"))

C4_Witness ==
    /\ pc = "done"
    /\ NumPoints = 1
    /\ opts.closed
    /\ IsSome(opts.hidden_point_at_start)
    /\ IsSome(opts.hidden_point_at_end)
    /\ Segments = 2
    /\ ret = Err("TooFewPoints")

\* The position in the output of sample k of window i (both from 0).
SamplePos(i, k) == i * Segments + k + 1

\* C5: with S >= 1, the output point at position i*S (the sample with s = 0 of
\* window i) is the window's curr point, which is input point i, exactly.
C5_FirstSampleIsCurr ==
    (Segments >= 1) =>
        \A i \in 0..(Len(yielded) - 1) :
            /\ yielded[i + 1][2] = PtRef(i)
            /\ (SamplePos(i, 0) <= Len(result)) =>
                   (result[SamplePos(i, 0)] = CopyCoords(dim, points[i + 1]))

C5_Witness ==
    /\ pc = "done"
    /\ opts.closed
    /\ NumPoints = 3
    /\ Segments = 2
    /\ opts.tension = F(1)
    /\ points[1] /= points[2]
    /\ points[2] /= points[3]
    /\ points[3] /= points[1]
    /\ Len(yielded) = 3
    /\ result[SamplePos(2, 0)] = CopyCoords(dim, points[3])

\* The tension in force for a window whose curr point is curr.
EffectiveTension(curr) ==
    IF curr.tension /= None THEN curr.tension[1] ELSE opts.tension

\* p = c1 * curr + c2 * next on every axis.
IsBlend(p, c1, curr, c2, next) ==
    /\ p.x = Add(Mul(c1, curr.x), Mul(c2, next.x))
    /\ p.y = Add(Mul(c1, curr.y), Mul(c2, next.y))
    /\ (dim = 3) => (p.z = Add(Mul(c1, curr.z), Mul(c2, next.z)))

\* C7: in an interval whose effective tension is 0, sample k is
\* c1*curr + c2*next with c1 + c2 = 1 at s = k/S: a point of the chord from
\* curr to next, whatever prev, next2 and the hidden anchors are.
C7_ZeroTensionChord ==
    \A i \in 0..(Len(yielded) - 1) :
        \A k \in 0..(Segments - 1) :
            LET curr == Deref(yielded[i + 1][2], points, opts)
                next == Deref(yielded[i + 1][3], points, opts)
                s == Div(F(k), F(Segments))
                s2 == Mul(s, s)
                s3 == Mul(s2, s)
                c1 == Add(Sub(Mul(F(2), s3), Mul(F(3), s2)), F(1))
                c2 == Sub(Mul(F(3), s2), Mul(F(2), s3))
            IN  (SamplePos(i, k) <= Len(result) /\ EffectiveTension(curr) = F(0)) =>
                    /\ Add(c1, c2) = F(1)
                    /\ IsBlend(result[SamplePos(i, k)], c1, curr, c2, next)

C7_Witness ==
    /\ pc = "inner"
    /\ Segments = 2
    /\ t = 2
    /\ opts.tension = F(1)
    /\ item /= None
    /\ Deref(item[1][2], points, opts).tension = Some(F(0))
    /\ item[1][1] = HiddenStartRef
    /\ Deref(item[1][4], points, opts) /= Deref(item[1][3], points, opts)
    /\ Deref(item[1][3], points, opts) /= Deref(item[1][2], points, opts)
    /\ Len(result) = 2
    /\ result[2] /= CopyCoords(dim, points[1])
    /\ result[2] /= CopyCoords(dim, points[2])

\* C6: over N >= 2 points the generator yields N windows when closed and N-1
\* when open; index grows by exactly one with each window yielded, window i
\* being the one whose curr is point i; and once index = max_index a call of
\* next() returns None and leaves the iterator as it was.
C6_Count == IF opts.closed THEN NumPoints ELSE NumPoints - 1

C6_State ==
    /\ pc /= "panic"
    /\ iter.max_index = C6_Count
    /\ iter.index = Len(yielded)
    /\ iter.index <= C6_Count
    /\ (noneCalls > 0) => (Len(yielded) = C6_Count)
    /\ \A i \in 1..Len(yielded) : yielded[i][2] = PtRef(i - 1)

C6_Step ==
    /\ (iter.index = iter.max_index) =>
           /\ iter' = iter
           /\ yielded' = yielded
           /\ item' = None
    /\ (iter.index /= iter.max_index) =>
           /\ iter'.index = iter.index + 1
           /\ yielded' = Append(yielded, iter.current)
           /\ item' = Some(iter.current)
           /\ noneCalls' = noneCalls

C6_WindowCount == [][C6_Step /\ C6_State']_vars

C6_Witness ==
    /\ noneCalls = 2
    /\ opts.closed
    /\ NumPoints = 4
    /\ Len(yielded) = 4
    /\ iter.index = 4
    /\ item = None

\* C8: Points3D::try_from returns Ok holding all the points in input order
\* for an input of at least 2 points, and Error::TooFewPoints for fewer.
C8_TryFromTwoPoints ==
    (conv = "try_from" /\ cret /= <<>>) =>
        IF Len(input) >= 2
        THEN cret = Ok([i \in 1..Len(input) |-> IntoPoint3D(input[i])])
        ELSE cret = Err("TooFewPoints")

\* C9: Points3D::try_from_flatten on a flat sequence whose length is not a
\* multiple of 3 returns Error::MissingY, also when fewer than 2 complete
\* points were decoded.
C9_FlattenMissingY ==
    (conv = "try_from_flatten" /\ cret /= <<>> /\ Len(input) % 3 /= 0) =>
        cret = Err("MissingY")

\* C10: on an open curve of N >= 3 points window i (0 <= i <= N-2) is
\* (prev, point[i], point[i+1], next2), where prev is point[i-1], or for
\* i = 0 hidden_start if provided, else point[0]; and next2 is point[i+2],
\* or for i = N-2 hidden_end if provided, else point[N-1].
C10_Prev(i) ==
    IF i > 0 THEN PtRef(i - 1)
    ELSE IF opts.hidden_point_at_start /= None THEN HiddenStartRef
    ELSE PtRef(0)

C10_Next2(i) ==
    IF i < NumPoints - 2 THEN PtRef(i + 2)
    ELSE IF opts.hidden_point_at_end /= None THEN HiddenEndRef
    ELSE PtRef(NumPoints - 1)

C10_OpenWindows ==
    (~opts.closed /\ NumPoints >= 3) =>
        /\ pc /= "panic"
        /\ Len(yielded) <= NumPoints - 1
        /\ (noneCalls > 0) => (Len(yielded) = NumPoints - 1)
        /\ \A i \in 0..(Len(yielded) - 1) :
               yielded[i + 1] = <<C10_Prev(i), PtRef(i), PtRef(i + 1), C10_Next2(i)>>

C10_Witness ==
    /\ ~opts.closed
    /\ NumPoints = 4
    /\ opts.hidden_point_at_start /= None
    /\ opts.hidden_point_at_end /= None
    /\ noneCalls = 1
    /\ Len(yielded) = 3
    /\ yielded[1] = <<HiddenStartRef, PtRef(0), PtRef(1), PtRef(2)>>
    /\ yielded[2] = <<PtRef(0), PtRef(1), PtRef(2), PtRef(3)>>
    /\ yielded[3] = <<PtRef(1), PtRef(2), PtRef(3), HiddenEndRef>>

\* C11: on an open curve of 2 points the single window has next2 =
\* hidden_end when a hidden end point is supplied, and next2 = next (point[1])
\* only when none is.
C11_TwoPointHiddenEnd ==
    (~opts.closed /\ NumPoints = 2 /\ Len(yielded) >= 1) =>
        yielded[1][4] = IF opts.hidden_point_at_end /= None
                        THEN HiddenEndRef
                        ELSE PtRef(1)

\* C12: on a closed curve of N >= 2 points window i (0 <= i <= N-1) is
\* (point[(i-1) mod N], point[i], point[(i+1) mod N], point[(i+2) mod N]),
\* and all N windows are yielded.
C12_ClosedWindows ==
    (opts.closed /\ NumPoints >= 2) =>
        /\ pc /= "panic"
        /\ Len(yielded) <= NumPoints
        /\ (noneCalls > 0) => (Len(yielded) = NumPoints)
        /\ \A i \in 0..(Len(yielded) - 1) :
               yielded[i + 1] = << PtRef((i + NumPoints - 1) % NumPoints),
                                   PtRef(i),
                                   PtRef((i + 1) % NumPoints),
                                   PtRef((i + 2) % NumPoints) >>

C12_Witness ==
    /\ opts.closed
    /\ NumPoints = 4
    /\ opts.hidden_point_at_start /= None
    /\ opts.hidden_point_at_end /= None
    /\ noneCalls = 1
    /\ yielded = << <<PtRef(3), PtRef(0), PtRef(1), PtRef(2)>>,
                    <<PtRef(0), PtRef(1), PtRef(2), PtRef(3)>>,
                    <<PtRef(1), PtRef(2), PtRef(3), PtRef(0)>>,
                    <<PtRef(2), PtRef(3), PtRef(0), PtRef(1)>> >>

\* The case N = 2 of C12, reached as well.
C12_WitnessTwo ==
    /\ opts.closed
    /\ NumPoints = 2
    /\ noneCalls = 1
    /\ yielded = << <<PtRef(1), PtRef(0), PtRef(1), PtRef(0)>>,
                    <<PtRef(0), PtRef(1), PtRef(0), PtRef(1)>> >>

\* The configuration without hidden anchors.
NoAnchors == [opts EXCEPT !.hidden_point_at_start = None,
                          !.hidden_point_at_end = None]

\* C13: on a closed curve the hidden anchors have no influence: whatever
\* anchors this evaluation was given, no window refers to one, and it
\* generates the same windows and returns the same output as the evaluation
\* of the same points with the same tension and segment count and no
\* anchors (so any two evaluations that differ in the anchors alone agree).
C13_ClosedIgnoresHidden ==
    (opts.closed /\ pc = "done" /\ NumPoints >= 2) =>
        /\ \A i \in 1..Len(yielded) : \A k \in 1..4 : yielded[i][k].src = "pts"
        /\ yielded = WindowsFrom(New(points, NoAnchors), points)
        /\ (opts /= NoAnchors) => (ret = CalcSpline(dim, points, NoAnchors))

C13_Witness ==
    /\ pc = "done"
    /\ opts.closed
    /\ NumPoints = 3
    /\ Segments = 2
    /\ opts.tension = F(1)
    /\ opts.hidden_point_at_start /= None
    /\ opts.hidden_point_at_end /= None
    /\ IsOk(ret)
    /\ Len(ret[2]) = 7
    /\ ret = CalcSpline(dim, points, NoAnchors)

\* The cubic Hermite blend of one axis at s with tangents scaled by tau.
HermiteAxis(prev, curr, next, next2, tau, s) ==
    LET s2 == Mul(s, s)
        s3 == Mul(s2, s)
        h1 == Add(Sub(Mul(F(2), s3), Mul(F(3), s2)), F(1))
        h2 == Sub(Mul(F(3), s2), Mul(F(2), s3))
        h3 == Add(Sub(s3, Mul(F(2), s2)), s)
        h4 == Sub(s3, s2)
    IN  Add(Add(Add(Mul(h1, curr), Mul(h2, next)),
                Mul(h3, Mul(Sub(next, prev), tau))),
            Mul(h4, Mul(Sub(next2, curr), tau)))

\* p is the Hermite blend of window w at s with tension tau, on every axis.
IsHermite(p, w, tau, s) ==
    LET prev == Deref(w[1], points, opts)
        curr == Deref(w[2], points, opts)
        next == Deref(w[3], points, opts)
        next2 == Deref(w[4], points, opts)
    IN  /\ p.x = HermiteAxis(prev.x, curr.x, next.x, next2.x, tau, s)
        /\ p.y = HermiteAxis(prev.y, curr.y, next.y, next2.y, tau, s)
        /\ (dim = 3) => (p.z = HermiteAxis(prev.z, curr.z, next.z, next2.z, tau, s))

\* C14: every sample of window i is computed with the tension override of
\* the window's curr point (input point i) when it has one, else with the
\* global tension; no other point's override enters, and on an open curve
\* the last input point is never a window's curr.  Each sample is examined
\* in the state that follows its push, where it is the last of the output.
C14_TensionOfCurr ==
    /\ \A i \in 0..(Len(yielded) - 1) :
           /\ yielded[i + 1][2] = PtRef(i)
           /\ (~opts.closed) => (i < NumPoints - 1)
    /\ (pc = "inner") =>
           /\ item = Some(yielded[Len(yielded)])
           /\ Len(result) = (Len(yielded) - 1) * Segments + t
           /\ (t >= 1) =>
                  IsHermite(result[Len(result)], item[1],
                            EffectiveTension(points[Len(yielded)]),
                            Div(F(t - 1), F(Segments)))

C14_Witness ==
    /\ pc = "inner"
    /\ ~opts.closed
    /\ Segments = 2
    /\ t = 2
    /\ Len(result) = 2
    /\ opts.tension = F(1)
    /\ item /= None
    /\ item[1][1] = HiddenStartRef
    /\ points[1].tension = Some(F(2))
    /\ points[2].tension = Some(F(0))
    /\ IsHermite(result[2], item[1], F(2), Div(F(1), F(2)))
    /\ ~IsHermite(result[2], item[1], F(1), Div(F(1), F(2)))
    /\ ~IsHermite(result[2], item[1], F(0), Div(F(1), F(2)))
    /\ ~IsHermite(result[2], item[1], F(3), Div(F(1), F(2)))

\* C15: with segments_per_interval = 0 and N >= 2 nothing fails and the
\* inner loop body, the only place that divides by num_of_segments, never
\* runs: every window is consumed and contributes no sample, and the result
\* is Ok with exactly one point, the closing one (first input point if
\* closed, last if open).
C15_ZeroSegments ==
    (Segments = 0 /\ NumPoints >= 2) =>
        /\ pc /= "panic"
        /\ t = 0
        /\ (pc /= "done") => (result = <<>> /\ ret = <<>>)
        /\ (pc \in {"close", "done"}) =>
               (Len(yielded) = IF opts.closed THEN NumPoints ELSE NumPoints - 1)
        /\ (pc = "done") =>
               ret = Ok(<< CopyCoords(dim, IF opts.closed
                                           THEN points[1]
                                           ELSE points[NumPoints]) >>)

C15_Witness ==
    /\ pc = "done"
    /\ Segments = 0
    /\ opts.closed
    /\ NumPoints = 3
    /\ points[1] /= points[3]
    /\ Len(yielded) = 3
    /\ ret = Ok(<<CopyCoords(dim, points[1])>>)

\* The open case of C15, reached as well.
C15_WitnessOpen ==
    /\ pc = "done"
    /\ Segments = 0
    /\ ~opts.closed
    /\ NumPoints = 3
    /\ points[1] /= points[3]
    /\ Len(yielded) = 2
    /\ ret = Ok(<<CopyCoords(dim, points[3])>>)

\* C16: over N >= 2 points no step of the window generator indexes pts out
\* of range or subtracts below zero: the references new() built and every
\* reference update_current stores are to pts[j] with j < N or to a hidden
\* anchor, and neither new() nor the coming call of next() underflows.
C16_InRange ==
    /\ pc /= "panic"
    /\ ~NewUnderflows(points, opts)
    /\ ~Panicked(New(points, opts))
    /\ ~Panicked(iter)
    /\ ~NextUnderflows(iter)
    /\ \A k \in 1..4 :
           (iter.current[k].src = "pts") =>
               (iter.current[k].i >= 0 /\ iter.current[k].i < NumPoints)

\* update_current has run on a closed curve of 2 points, where max_index - 2
\* is 0 and the index read is pts[1].
C16_Witness ==
    /\ opts.closed
    /\ NumPoints = 2
    /\ iter.index = 1
    /\ iter.max_index - 2 = 0
    /\ Len(yielded) = 1
    /\ iter.current = <<PtRef(0), PtRef(1), PtRef(0), PtRef(1)>>

\* update_current has read pts[index + 2] on an open and on a closed curve.
C16_WitnessInterior ==
    /\ NumPoints = 4
    /\ iter.index = 1
    /\ iter.current[4] = PtRef(3)

====
